---------------------------- MODULE Spec2Model ----------------------------
(***************************************************************************)
(* perfrecord: the command-line entry point (main) and the recording       *)
(* driver (start_recording) of src/perfrecord/src/main.rs, together with   *)
(* the collaborators they drive: the ProcessLauncher and its child         *)
(* process, the TaskProfiler, the task channel and the Sampler loop.       *)
(*                                                                         *)
(* main and start_recording are translated statement by statement; pc is   *)
(* the position of the profiling program's single thread.  The Sampler,    *)
(* the launcher and the child live in other files of the crate; they are   *)
(* modelled from their description in spec.md (sections 4.1, 4.2, 4.3).    *)
(***************************************************************************)
EXTENDS Integers, Sequences, FiniteSets, TLC

(* ------------------------------ bounds -------------------------------- *)

\* Largest value the tick counter of the Sampler loop is followed to; the
\* loop keeps running beyond it, the counter saturates.
MaxTicks == 3

\* Largest time limit, counted in sampling intervals, given on the command
\* line (0 stands for "no --time-limit").
MaxLimit == 2

(* ----------------------------- constants ------------------------------ *)

\* Exit status of std::process::exit(1), and of main returning Err.
ExitFailure == 1

\* Exit status of a Rust process whose main thread panicked.
ExitPanic == 101

\* Exit status of main returning Ok(()).
ExitSuccess == 0

\* No exit status yet: the process is still running.
NoExitYet == -1

\* The one task the command-line surface ever feeds to the Sampler.
ChildTask == 1

(* ------------------------------- state -------------------------------- *)

VARIABLES
    opt,             \* the parsed command line (struct Opt)
    pc,              \* position of the main thread in main/start_recording
    exitCode,        \* exit status of the invocation, NoExitYet while alive
    printed,         \* what main printed: subset of {"missing", "usage"}
    serverStarts,    \* number of calls of start_server_main
    senderAlive,     \* task_sender exists (the channel is not closed)
    queue,           \* TaskProfilers in flight in the channel
    samplerState,    \* "None", "Idle", "Running", "Finished", "TimedOut", "Error"
    spc,             \* position inside one cycle of the Sampler loop
    liveTasks,       \* Task Profilers the Sampler owns
    suspendedTasks,  \* tasks the Sampler has suspended and not yet resumed
    ticks,           \* scheduler ticks so far (saturates at MaxTicks)
    samples,         \* samples folded into the Profile Builder
    launcherState,   \* "none", "ok", "failed": ProcessLauncher::new
    taskTaken,       \* launcher.take_task() was called
    taskProfilerState, \* "none", "ok", "failed": TaskProfiler::new
    startExecCalls,  \* number of calls of launcher.start_execution()
    sent,            \* task_sender.send(task_profiler) succeeded
    childState,      \* "none", "suspended", "running", "exited", "reaped"
    childAtReturn,   \* childState when sampler.run() returned ("none" before)
    runResult,       \* "none", "ok", "err": result of sampler.run()
    fileCreates,     \* number of File::create(output_file) that created it
    createFailed,    \* File::create returned Err
    jsonBuilt,       \* number of calls of profile_builder.to_json()
    fileWrites,      \* number of successful to_writer calls
    writeFailed,     \* to_writer returned Err
    waitCalls        \* number of calls of launcher.wait()

cliVars     == <<opt, pc, exitCode, printed, serverStarts>>
channelVars == <<senderAlive, queue, sent>>
samplerVars == <<samplerState, spc, liveTasks, suspendedTasks, ticks, samples,
                 childAtReturn, runResult>>
launchVars  == <<launcherState, taskTaken, taskProfilerState, startExecCalls,
                 childState, waitCalls>>
fileVars    == <<fileCreates, createFailed, jsonBuilt, fileWrites, writeFailed>>

vars == <<cliVars, channelVars, samplerVars, launchVars, fileVars>>

(* --------------------------- the command line -------------------------- *)

\* Option<Subcommands>: absent, Command(vec![]) or Command(non-empty vector).
RestValues == {"None", "Empty", "Cmd"}

\* Every command line Opt::from_args() can hand to main.  time_limit is
\* counted in sampling intervals, 0 is None.
Opt ==
    [ file_to_launch   : BOOLEAN,
      file_to_serve    : BOOLEAN,
      rest             : RestValues,
      launch_when_done : BOOLEAN,
      time_limit       : 0..MaxLimit ]

\* opt.file_to_launch.or(opt.file_to_serve) is Some.
file_for_launching_or_serving(o) == o.file_to_launch \/ o.file_to_serve

\* The two nested tests that guard the call of start_recording, with the
\* emptiness check dropped.
CommandGivenNoEmptyCheck(r) == r # "None"

\* if let Some(Subcommands::Command(command)) = opt.rest, !command.is_empty()
CommandGiven(r) == r = "Cmd"

Min(a, b) == IF a < b THEN a ELSE b


(* ------------------------------- Init --------------------------------- *)

\* The process has just been started: Opt::from_args() has produced opt and
\* nothing else exists yet.
Init ==
    /\ opt \in Opt
    /\ pc = "main"
    /\ exitCode = NoExitYet
    /\ printed = {}
    /\ serverStarts = 0
    /\ senderAlive = FALSE
    /\ queue = <<>>
    /\ sent = FALSE
    /\ samplerState = "None"
    /\ spc = "top"
    /\ liveTasks = {}
    /\ suspendedTasks = {}
    /\ ticks = 0
    /\ samples = 0
    /\ childAtReturn = "none"
    /\ runResult = "none"
    /\ launcherState = "none"
    /\ taskTaken = FALSE
    /\ taskProfilerState = "none"
    /\ startExecCalls = 0
    /\ childState = "none"
    /\ waitCalls = 0
    /\ fileCreates = 0
    /\ createFailed = FALSE
    /\ jsonBuilt = 0
    /\ fileWrites = 0
    /\ writeFailed = FALSE

(* --------------------------- control transfer -------------------------- *)

\* Continue at statement label, or unwind with a panic when label is
\* "panic" (a failed unwrap/expect), or return Err from main when it is
\* "err".  task_sender is a local of start_recording: it is dropped when
\* the function is left.
Goto(label) ==
    IF label = "panic"
    THEN /\ pc' = "done"
         /\ exitCode' = ExitPanic
         /\ senderAlive' = FALSE
    ELSE IF label = "err"
    THEN /\ pc' = "done"
         /\ exitCode' = ExitFailure
         /\ senderAlive' = FALSE
    ELSE /\ pc' = label
         /\ UNCHANGED <<exitCode, senderAlive>>

(* -------------------------------- main -------------------------------- *)

\* main, lines 79-102: serve a file, or record a command, or print the
\* missing-command message with the usage text and exit(1).
Main ==
    /\ pc = "main"
    /\ IF file_for_launching_or_serving(opt)
       THEN /\ pc' = "serve"
            /\ serverStarts' = serverStarts + 1
            /\ UNCHANGED <<exitCode, printed>>
       ELSE IF CommandGiven(opt.rest)
       THEN /\ pc' = "which"
            /\ UNCHANGED <<exitCode, printed, serverStarts>>
       ELSE /\ printed' = {"missing", "usage"}
            /\ exitCode' = ExitFailure
            /\ pc' = "done"
            /\ UNCHANGED serverStarts
    /\ UNCHANGED <<opt, channelVars, samplerVars, launchVars, fileVars>>

\* Where the main thread continues when start_server(file, ..).await
\* completes: main returns Ok(()) after serving a given file (line 84),
\* start_recording goes on to launcher.wait() (line 153).
AfterServer(at) == IF at = "serve" THEN "return" ELSE "wait"

\* start_server_main returns.
ServerDone ==
    /\ pc \in {"serve", "serve_rec"}
    /\ pc' = AfterServer(pc)
    /\ UNCHANGED <<opt, exitCode, printed, serverStarts, channelVars,
                   samplerVars, launchVars, fileVars>>

\* main returns Ok(()): lines 84 and 97, start_recording's line 155.
ReturnOk ==
    /\ pc = "return"
    /\ pc' = "done"
    /\ exitCode' = ExitSuccess
    /\ senderAlive' = FALSE
    /\ UNCHANGED <<opt, printed, serverStarts, queue, sent, samplerVars,
                   launchVars, fileVars>>

(* --------------------------- start_recording --------------------------- *)

\* Lines 117-119: args.first().unwrap() panics on an empty vector, and
\* which(command_name).expect(..) panics when the name does not resolve.
AfterWhich(r, found) == IF r = "Cmd" /\ found THEN "channel" ELSE "panic"

ResolveCommand ==
    /\ pc = "which"
    /\ \E found \in BOOLEAN : Goto(AfterWhich(opt.rest, found))
    /\ UNCHANGED <<opt, printed, serverStarts, queue, sent, samplerVars,
                   launchVars, fileVars>>

\* Lines 121-122: unbounded() and Sampler::new(task_receiver, ..).
CreateChannel ==
    /\ pc = "channel"
    /\ senderAlive' = TRUE
    /\ queue' = <<>>
    /\ samplerState' = "Idle"
    /\ pc' = "launch"
    /\ UNCHANGED <<opt, exitCode, printed, serverStarts, sent, spc, liveTasks,
                   suspendedTasks, ticks, samples, childAtReturn, runResult,
                   launchVars, fileVars>>

\* Line 124: ProcessLauncher::new(..)?  -- Err is returned to main, which
\* returns it.
AfterLauncher(ok) == IF ok THEN "take_task" ELSE "err"

LaunchProcess ==
    /\ pc = "launch"
    /\ \E ok \in BOOLEAN :
         /\ launcherState' = IF ok THEN "ok" ELSE "failed"
         /\ childState' = IF ok THEN "suspended" ELSE "none"
         /\ Goto(AfterLauncher(ok))
    /\ UNCHANGED <<opt, printed, serverStarts, queue, sent, samplerVars,
                   taskTaken, taskProfilerState, startExecCalls, waitCalls,
                   fileVars>>

\* Lines 125-127: get_id(), take_task(), println!.
TakeTask ==
    /\ pc = "take_task"
    /\ taskTaken' = TRUE
    /\ pc' = "task_profiler"
    /\ UNCHANGED <<opt, exitCode, printed, serverStarts, channelVars,
                   samplerVars, launcherState, taskProfilerState,
                   startExecCalls, childState, waitCalls, fileVars>>

\* Lines 129-136 without the expect: the result of TaskProfiler::new is
\* not looked at.
AfterTaskProfilerUnchecked(ok) == "start_execution"

\* Lines 129-136: TaskProfiler::new(..).expect("couldn't create TaskProfiler")
AfterTaskProfiler(ok) == IF ok THEN "start_execution" ELSE "panic"

NewTaskProfiler ==
    /\ pc = "task_profiler"
    /\ \E ok \in BOOLEAN :
         /\ taskProfilerState' = IF ok THEN "ok" ELSE "failed"
         /\ Goto(AfterTaskProfiler(ok))
    /\ UNCHANGED <<opt, printed, serverStarts, queue, sent, samplerVars,
                   launcherState, taskTaken, startExecCalls, childState,
                   waitCalls, fileVars>>

\* Line 137: launcher.start_execution() releases the child.
StartExecution ==
    /\ pc = "start_execution"
    /\ startExecCalls' = startExecCalls + 1
    /\ childState' = IF childState = "suspended" THEN "running" ELSE childState
    /\ pc' = "send"
    /\ UNCHANGED <<opt, exitCode, printed, serverStarts, channelVars,
                   samplerVars, launcherState, taskTaken, taskProfilerState,
                   waitCalls, fileVars>>

\* Lines 139-143 with the Sampler never run: the profile is written right
\* after the hand-off.
AfterSendSkipRun == "create_file"

\* Line 143: the statement after the send is sampler.run().
AfterSend == "run"

\* Lines 139-141: task_sender.send(task_profiler).expect(..).  The
\* receiving end is owned by the Sampler, which is alive, so the send on
\* the unbounded channel succeeds.
SendTask ==
    /\ pc = "send"
    /\ queue' = Append(queue, ChildTask)
    /\ sent' = TRUE
    /\ pc' = AfterSend
    /\ UNCHANGED <<opt, exitCode, printed, serverStarts, senderAlive,
                   samplerVars, launchVars, fileVars>>


(* ------------------------------ the child ------------------------------ *)

\* The released child runs on its own and exits when it pleases, unless
\* its task is suspended for a sample.
ChildExit ==
    /\ childState = "running"
    /\ suspendedTasks = {}
    /\ childState' = "exited"
    /\ UNCHANGED <<cliVars, channelVars, samplerVars, launcherState, taskTaken,
                   taskProfilerState, startExecCalls, waitCalls, fileVars>>

(* ----------------------------- sampler.run() --------------------------- *)

\* Line 143 with the result dropped instead of unwrapped.
AfterRunUnchecked(ok) == "create_file"

\* Line 143 followed by line 153: the child is waited for before the
\* profile is written.
AfterRunWaitFirst(ok) == IF ok THEN "wait" ELSE "panic"

\* Line 143: sampler.run().expect("Sampler ran into an error"), then line 145.
AfterRun(ok) == IF ok THEN "create_file" ELSE "panic"

\* run() is entered: Idle -> Running.
SamplerStart ==
    /\ pc = "run"
    /\ samplerState = "Idle"
    /\ samplerState' = "Running"
    /\ spc' = "top"
    /\ UNCHANGED <<cliVars, channelVars, liveTasks, suspendedTasks, ticks,
                   samples, childAtReturn, runResult, launchVars, fileVars>>

\* The set of the elements of a sequence.
Range(q) == { q[i] : i \in DOMAIN q }

\* run() returns state to start_recording, with result ok or not.
SamplerReturn(state, ok) ==
    /\ samplerState' = state
    /\ runResult' = IF ok THEN "ok" ELSE "err"
    /\ childAtReturn' = childState
    /\ Goto(AfterRun(ok))

\* Top of one cycle of the loop, at a deadline: the time limit is looked
\* at, the queue is drained without blocking, and the loop ends when no
\* Task Profiler is left, none is queued and the channel is closed.  A
\* kernel failure the Sampler does not absorb ends run() with Err.
SamplerCycle ==
    /\ pc = "run"
    /\ samplerState = "Running"
    /\ spc = "top"
    /\ \E kernelOk \in BOOLEAN :
         IF ~kernelOk
         THEN /\ SamplerReturn("Error", FALSE)
              /\ UNCHANGED <<queue, liveTasks, spc>>
         ELSE IF opt.time_limit # 0 /\ ticks >= opt.time_limit
         THEN /\ SamplerReturn("TimedOut", TRUE)
              /\ UNCHANGED <<queue, liveTasks, spc>>
         ELSE IF liveTasks \cup Range(queue) = {} /\ ~senderAlive
         THEN /\ SamplerReturn("Finished", TRUE)
              /\ UNCHANGED <<queue, liveTasks, spc>>
         ELSE /\ liveTasks' = liveTasks \cup Range(queue)
              /\ queue' = <<>>
              /\ spc' = IF liveTasks' = {} THEN "sleep" ELSE "sample"
              /\ UNCHANGED <<pc, exitCode, senderAlive, samplerState,
                             runResult, childAtReturn>>
    /\ UNCHANGED <<opt, printed, serverStarts, sent, suspendedTasks, ticks,
                   samples, launchVars, fileVars>>

\* TaskProfiler::sample, step 1: the task is suspended; when its process
\* has exited the suspension fails and the Task Profiler is removed.
SamplerSuspend ==
    /\ pc = "run"
    /\ samplerState = "Running"
    /\ spc = "sample"
    /\ IF childState = "exited"
       THEN /\ liveTasks' = {}
            /\ spc' = "sleep"
            /\ UNCHANGED suspendedTasks
       ELSE /\ suspendedTasks' = liveTasks
            /\ spc' = "capture"
            /\ UNCHANGED liveTasks
    /\ UNCHANGED <<cliVars, channelVars, samplerState, ticks, samples,
                   childAtReturn, runResult, launchVars, fileVars>>

\* TaskProfiler::sample, steps 2-6: the threads are captured, the task is
\* resumed and the snapshots are folded into the Profile Builder.
SamplerResume ==
    /\ pc = "run"
    /\ samplerState = "Running"
    /\ spc = "capture"
    /\ suspendedTasks' = {}
    /\ samples' = Min(samples + 1, MaxTicks)
    /\ spc' = "sleep"
    /\ UNCHANGED <<cliVars, channelVars, samplerState, liveTasks, ticks,
                   childAtReturn, runResult, launchVars, fileVars>>

\* The loop sleeps until the next deadline.
SamplerSleep ==
    /\ pc = "run"
    /\ samplerState = "Running"
    /\ spc = "sleep"
    /\ ticks' = Min(ticks + 1, MaxTicks)
    /\ spc' = "top"
    /\ UNCHANGED <<cliVars, channelVars, samplerState, liveTasks,
                   suspendedTasks, samples, childAtReturn, runResult,
                   launchVars, fileVars>>

(* --------------------------- writing the profile ----------------------- *)

\* Line 145: File::create(output_file).unwrap()
AfterCreate(ok) == IF ok THEN "write_json" ELSE "panic"

CreateFile ==
    /\ pc = "create_file"
    /\ \E ok \in BOOLEAN :
         /\ fileCreates' = IF ok THEN fileCreates + 1 ELSE fileCreates
         /\ createFailed' = ~ok
         /\ Goto(AfterCreate(ok))
    /\ UNCHANGED <<opt, printed, serverStarts, queue, sent, samplerVars,
                   launchVars, jsonBuilt, fileWrites, writeFailed>>

\* Line 146 with the result of to_writer dropped.
AfterWriteUnchecked(ok) == "launch_when_done"

\* Line 146: to_writer(file, &profile_builder.to_json()).expect(..)
AfterWrite(ok) == IF ok THEN "launch_when_done" ELSE "panic"

WriteJson ==
    /\ pc = "write_json"
    /\ jsonBuilt' = jsonBuilt + 1
    /\ \E ok \in BOOLEAN :
         /\ fileWrites' = IF ok THEN fileWrites + 1 ELSE fileWrites
         /\ writeFailed' = ~ok
         /\ Goto(AfterWrite(ok))
    /\ UNCHANGED <<opt, printed, serverStarts, queue, sent, samplerVars,
                   launchVars, fileCreates, createFailed>>

\* Lines 149-151: if launch_when_done { start_server_main(output_file, true) }
LaunchWhenDone ==
    /\ pc = "launch_when_done"
    /\ IF opt.launch_when_done
       THEN /\ serverStarts' = serverStarts + 1
            /\ pc' = "serve_rec"
       ELSE /\ pc' = "wait"
            /\ UNCHANGED serverStarts
    /\ UNCHANGED <<opt, exitCode, printed, channelVars, samplerVars,
                   launchVars, fileVars>>

\* Line 153: launcher.wait().expect("couldn't wait for child") blocks until
\* the child has exited and reaps it.
AfterWait(ok) == IF ok THEN "return" ELSE "panic"

Wait ==
    /\ pc = "wait"
    /\ childState = "exited"
    /\ waitCalls' = waitCalls + 1
    /\ \E ok \in BOOLEAN :
         /\ childState' = IF ok THEN "reaped" ELSE childState
         /\ Goto(AfterWait(ok))
    /\ UNCHANGED <<opt, printed, serverStarts, queue, sent, samplerVars,
                   launcherState, taskTaken, taskProfilerState,
                   startExecCalls, fileVars>>

(* ---------------------------- specification ---------------------------- *)

\* The steps of the profiling program's own thread.
ProfilerStep ==
    \/ Main
    \/ ServerDone
    \/ ReturnOk
    \/ ResolveCommand
    \/ CreateChannel
    \/ LaunchProcess
    \/ TakeTask
    \/ NewTaskProfiler
    \/ StartExecution
    \/ SendTask
    \/ SamplerStart
    \/ SamplerCycle
    \/ SamplerSuspend
    \/ SamplerResume
    \/ SamplerSleep
    \/ CreateFile
    \/ WriteJson
    \/ LaunchWhenDone
    \/ Wait

Next == ProfilerStep \/ ChildExit

Spec == Init /\ [][Next]_vars

\* The profiling program's thread is scheduled as long as it can take a
\* step; nothing is assumed of the child.
FairSpec == Spec /\ WF_vars(ProfilerStep)


(* ------------------------------ properties ----------------------------- *)

\* The invocation has ended: main returned, exit() was called or a panic
\* unwound the main thread.
Ended == pc = "done"

\* sampler.run() has been entered.
SamplerRunning == samplerState \in {"Running", "Finished", "TimedOut", "Error"}

\* C1: the child is not released before sampling begins: whenever
\* launcher.start_execution() has been called, the TaskProfiler has already
\* been sent to the Sampler's queue and the Sampler is running.
C1_StartAfterHandOff ==
    startExecCalls > 0 => (sent /\ SamplerRunning)

\* C2: with no time limit, once the child has exited while sampler.run()
\* executes, run() eventually returns in the Finished state (a return with
\* a kernel error is let through: it is not the case the claim is about).
C2_RunFinishes ==
    (opt.time_limit = 0 /\ pc = "run" /\ childState = "exited")
        ~> (samplerState \in {"Finished", "Error"})

\* C3: no partial profile on a fatal failure: when ProcessLauncher::new
\* fails the invocation has ended with main's Err status, when
\* TaskProfiler::new fails or sampler.run() returns Err it has ended with a
\* panic, and in all three cases the output file was neither created nor
\* written.
C3_NoPartialProfile ==
    /\ launcherState = "failed" => (Ended /\ exitCode = ExitFailure)
    /\ (taskProfilerState = "failed" \/ runResult = "err")
           => (Ended /\ exitCode = ExitPanic)
    /\ (launcherState = "failed" \/ taskProfilerState = "failed"
            \/ runResult = "err")
           => (fileCreates = 0 /\ jsonBuilt = 0 /\ fileWrites = 0)

\* The Sampler took a sample and then failed: the invocation ended in a
\* panic with no file.
C3_Witness ==
    /\ runResult = "err"
    /\ samples > 0
    /\ Ended
    /\ fileCreates = 0

\* C4: a run that returned while the child was still running returned
\* TimedOut; after a TimedOut return no task is left suspended by the
\* Sampler and the child is not stopped; and start_recording reaches
\* launcher.wait() only with the profile written.
C4_TimedOutWritesBeforeWait ==
    /\ (runResult = "ok" /\ childAtReturn = "running")
           => samplerState = "TimedOut"
    /\ samplerState = "TimedOut"
           => (suspendedTasks = {} /\ childState # "suspended")
    /\ (samplerState = "TimedOut" /\ (pc = "wait" \/ waitCalls > 0))
           => (fileCreates = 1 /\ fileWrites = 1)

\* The time limit elapsed with the child running; the profile is on disk,
\* the main thread is blocked in wait() and the child still runs.
C4_Witness ==
    /\ opt.time_limit # 0
    /\ samplerState = "TimedOut"
    /\ childAtReturn = "running"
    /\ childState = "running"
    /\ samples > 0
    /\ fileWrites = 1
    /\ pc = "wait"
    /\ waitCalls = 0

\* C5: with no file to launch or serve and no non-empty command, nothing
\* is launched, no Sampler is made, no server is started and no output
\* file is created, and the invocation ends with exit code 1 having printed
\* the missing-command message and the usage text.
C5_MissingCommand ==
    (~file_for_launching_or_serving(opt) /\ opt.rest # "Cmd")
        => /\ launcherState = "none"
           /\ childState = "none"
           /\ samplerState = "None"
           /\ serverStarts = 0
           /\ fileCreates = 0
           /\ pc \in {"main", "done"}
           /\ Ended => (exitCode = ExitFailure /\ printed = {"missing", "usage"})

\* An empty argument vector was given and main has exited with 1.
C5_Witness ==
    /\ ~file_for_launching_or_serving(opt)
    /\ opt.rest = "Empty"
    /\ Ended
    /\ exitCode = ExitFailure
    /\ printed = {"missing", "usage"}

\* C6: launcher.start_execution() is called at most once, and only after
\* ProcessLauncher::new succeeded, the task was taken from the launcher and
\* a TaskProfiler was successfully constructed around it.
C6_StartExecutionOnce ==
    /\ startExecCalls <= 1
    /\ startExecCalls > 0
           => (launcherState = "ok" /\ taskTaken /\ taskProfilerState = "ok")

\* The child has just been released.
C6_Witness ==
    /\ startExecCalls = 1
    /\ pc = "send"
    /\ childState = "running"

\* C7: whenever ProcessLauncher::new succeeded, launcher.wait() has been
\* called by the time the invocation ends.
C7_WaitOnEveryPath ==
    (Ended /\ launcherState = "ok") => waitCalls > 0

\* C8: when the output file cannot be created or the JSON cannot be
\* written, the invocation has ended with a panic's non-zero status and the
\* viewer server was not started.
C8_OutputFailureIsFatal ==
    (createFailed \/ writeFailed)
        => (Ended /\ exitCode = ExitPanic /\ serverStarts = 0)

\* --launch-when-done was given and writing the JSON failed.
C8_Witness ==
    /\ writeFailed
    /\ opt.launch_when_done
    /\ fileCreates = 1
    /\ Ended

\* C9: the output file is created, the document built and the file written
\* at most once each, and only after sampler.run() returned Ok in the
\* Finished or TimedOut state.
C9_WrittenOnceAfterSampling ==
    /\ fileCreates <= 1
    /\ jsonBuilt <= 1
    /\ fileWrites <= 1
    /\ (pc \in {"create_file", "write_json"} \/ fileCreates > 0 \/ jsonBuilt > 0
            \/ createFailed)
           => (runResult = "ok" /\ samplerState \in {"Finished", "TimedOut"})

\* A recording ran to its successful end with the profile written.
C9_Witness ==
    /\ fileCreates = 1
    /\ jsonBuilt = 1
    /\ fileWrites = 1
    /\ Ended
    /\ exitCode = ExitSuccess

\* C10: whenever ProcessLauncher::new succeeded, launcher.start_execution()
\* has been called by the time the invocation ends.
C10_ChildReleased ==
    (Ended /\ launcherState = "ok") => startExecCalls > 0

=============================================================================
